---------------------------- MODULE Spec2Model ----------------------------
(***************************************************************************)
(* State-machine model of the MMA8452Q accelerometer driver                *)
(* (src/main/MMA8452Q.cpp) together with the two-wire bus transport it     *)
(* calls and the register file of the device on the other end of the bus.  *)
(*                                                                         *)
(* Every driver method is one action.  A method is written as an operator  *)
(* on a "call state" s: the device registers, the transport's receive      *)
(* buffer, the log of bus operations issued so far, and the fate of the    *)
(* byte requests still to come (how many bytes the transport delivers for  *)
(* each).  The register identifiers are kept symbolic (strings): their     *)
(* numeric addresses live in MMA8452Q.h.                                   *)
(***************************************************************************)
EXTENDS Integers, Sequences, FiniteSets, TLC

VARIABLES
    regs,     \* device register file: register name -> byte
    rxBuf,    \* Wire receive buffer left over after the last call
    scale,    \* MMA8452Q::scale
    x, y, z,  \* MMA8452Q::x, y, z   (signed raw values)
    cx, cy, cz, \* MMA8452Q::cx, cy, cz in units of 1/2048 g (exact: x * scale)
    rawData,  \* the local buffer of the last read() after readRegisters
    bufBefore,\* the same buffer before readRegisters (uninitialised stack)
    op,       \* the last driver call: [name, args]
    ret,      \* its return value (0 for a void method)
    busLog,   \* bus operations and device register accesses of the last call
    gen,      \* number of the sensor update that filled the output registers
    steps     \* steps taken so far

vars == <<regs, rxBuf, scale, x, y, z, cx, cy, cz, rawData, bufBefore,
          op, ret, busLog, gen, steps>>

---------------------------------------------------------------------------
(* Bounds *)

\* Sensor updates in one behaviour.
MaxGen == 2

\* Byte requests of one driver call that the transport may leave unanswered.
MaxFail == 1

\* Steps (driver calls and device events) of one behaviour of the whole driver.
MaxSteps == 2

---------------------------------------------------------------------------
(* Bytes and the bit operations the driver uses *)

Byte == 0..255

\* bit i of v
Bit(v, i) == (v \div (2 ^ i)) % 2

\* a & b on bytes
BitAnd(a, b) ==
    Bit(a, 0) * Bit(b, 0) + 2 * Bit(a, 1) * Bit(b, 1)
    + 4 * Bit(a, 2) * Bit(b, 2) + 8 * Bit(a, 3) * Bit(b, 3)
    + 16 * Bit(a, 4) * Bit(b, 4) + 32 * Bit(a, 5) * Bit(b, 5)
    + 64 * Bit(a, 6) * Bit(b, 6) + 128 * Bit(a, 7) * Bit(b, 7)

\* a | b on bytes
BitOr(a, b) == a + b - BitAnd(a, b)

\* a | b on 16-bit operands
BitOr16(a, b) ==
    a + b - (BitAnd(a % 256, b % 256) + 256 * BitAnd(a \div 256, b \div 256))

\* v << n
ShiftLeft(v, n) == v * (2 ^ n)

\* conversion of an int result back to byte
ToByte(v) == v % 256

\* (short) v: the 16-bit value v read as two's complement
ToShort(v) == IF v % 65536 >= 32768 THEN (v % 65536) - 65536 ELSE v % 65536

\* v >> n on a signed value: arithmetic shift, rounds towards minus infinity
ShiftRight(v, n) ==
    IF v >= 0 THEN v \div (2 ^ n) ELSE -((((2 ^ n) - 1) - v) \div (2 ^ n))

---------------------------------------------------------------------------
(* The device *)

\* The six output registers in address order, as read() indexes them.
OutRegs == <<"OUT_X_MSB", "OUT_X_LSB", "OUT_Y_MSB", "OUT_Y_LSB",
             "OUT_Z_MSB", "OUT_Z_LSB">>

RegNames == {"STATUS", "WHO_AM_I", "XYZ_DATA_CFG", "CTRL_REG1",
             "PL_STATUS", "PL_CFG", "PL_COUNT",
             "PULSE_CFG", "PULSE_SRC", "PULSE_THSX", "PULSE_THSY",
             "PULSE_THSZ", "PULSE_TMLT", "PULSE_LTCY", "PULSE_WIND"}
            \cup {OutRegs[i] : i \in 1..6}

IsOutReg(reg) == \E i \in 1..6 : OutRegs[i] = reg

OutIndex(reg) == CHOOSE i \in 1..6 : OutRegs[i] = reg

\* The register the device's auto-incrementing pointer reaches k bytes after
\* reg.  The driver bursts only over the output registers.
RegAt(reg, k) ==
    IF k = 0 THEN reg
    ELSE IF IsOutReg(reg) /\ OutIndex(reg) + k <= 6
         THEN OutRegs[OutIndex(reg) + k]
         ELSE "STATUS"

\* Byte i of the measurement the sensor's g-th update puts in the output
\* registers.
Sample(g, i) == (g * 83 + i * 41 + 127) % 256

LoadSample(r, g) ==
    [r EXCEPT !["OUT_X_MSB"] = Sample(g, 1), !["OUT_X_LSB"] = Sample(g, 2),
              !["OUT_Y_MSB"] = Sample(g, 3), !["OUT_Y_LSB"] = Sample(g, 4),
              !["OUT_Z_MSB"] = Sample(g, 5), !["OUT_Z_LSB"] = Sample(g, 6)]

\* A byte with the sensor update it was fetched from (-1: not from the
\* sensor's output registers).
Tagged(b, g) == [b |-> b, g |-> g]

NoUpdate == 0 - 1

---------------------------------------------------------------------------
(* The call state and the log *)

\* Sequencing: v is what the statements so far have produced, F the rest of
\* the method.
Then(v, F(_)) == CHOOSE r \in {F(w) : w \in {v}} : TRUE

Entry(o, reg, val, stop, act) ==
    [op |-> o, reg |-> reg, val |-> val, stop |-> stop, act |-> act, got |-> 0]

Start(fate, upd) ==
    [regs |-> regs, rx |-> rxBuf, log |-> <<>>, fate |-> fate, gen |-> gen,
     upd |-> upd, idle |-> 0, txReg |-> "-", txData |-> <<>>, ptr |-> "STATUS"]

Log(s, e) == [s EXCEPT !.log = Append(@, e)]

ActiveBit(r) == r["CTRL_REG1"] % 2

\* The bus is released (a stop condition): the sensor may refresh its output
\* registers now.  s.upd is the idle point of this call at which it does.
Released(s) ==
    IF s.idle + 1 = s.upd /\ s.gen < MaxGen
    THEN [s EXCEPT !.idle = @ + 1, !.gen = @ + 1,
                   !.regs = LoadSample(@, s.gen + 1)]
    ELSE [s EXCEPT !.idle = @ + 1]

---------------------------------------------------------------------------
(* The bus transport (Wire) against the device *)

\* Wire.begin()
wireBegin(s) == Log(s, Entry("begin", "-", 0, FALSE, ActiveBit(s.regs)))

\* Wire.beginTransmission(address)
beginTransmission(s) ==
    Log([s EXCEPT !.txReg = "-", !.txData = <<>>],
        Entry("beginTransmission", "-", 0, FALSE, ActiveBit(s.regs)))

\* Wire.write(reg): the first byte of a transmission is the register address
writeAddress(s, reg) ==
    Log([s EXCEPT !.txReg = reg],
        Entry("writeAddress", reg, 0, FALSE, ActiveBit(s.regs)))

\* The device stores data byte j of the transmission (if it is among the
\* first k) at the register its pointer reaches after j - 1 steps.
Put(r, s, j, k) ==
    IF j <= k /\ j <= Len(s.txData)
    THEN [r EXCEPT ![RegAt(s.txReg, j - 1)] = s.txData[j]]
    ELSE r

\* The device registers once the first k data bytes of the transmission are
\* stored.  A transmission of this driver carries one data byte; up to six
\* (a burst over the output registers) are followed.
Stored(s, k) ==
    Put(Put(Put(Put(Put(Put(s.regs, s, 1, k), s, 2, k), s, 3, k), s, 4, k),
            s, 5, k), s, 6, k)

\* The device stores the data bytes of a transmission; each store is logged
\* with the device mode it arrives in.
Store(s) ==
    [s EXCEPT !.regs = Stored(s, Len(s.txData)),
              !.log = @ \o [k \in 1..Len(s.txData) |->
                               Entry("store", RegAt(s.txReg, k - 1), s.txData[k],
                                     FALSE, ActiveBit(Stored(s, k - 1)))]]

\* Wire.endTransmission(stop): the buffered bytes go out; stop = FALSE keeps
\* the bus (a repeated start follows), stop = TRUE releases it.
endTransmission(s, stop) ==
    Then(Store([s EXCEPT !.ptr = s.txReg]), LAMBDA sent :
    Then(Log(sent, Entry("endTransmission", "-", 0, stop, ActiveBit(sent.regs))),
         LAMBDA done :
    IF stop THEN Released(done) ELSE done))

\* The first n of the len bytes the device sends for a read from its pointer
\* on.
Fetch(s, len, n) ==
    SubSeq([k \in 1..len |->
               LET reg == RegAt(s.ptr, k - 1) IN
               Tagged(s.regs[reg], IF IsOutReg(reg) THEN s.gen ELSE NoUpdate)],
           1, n)

\* Wire.requestFrom(address, len): the transport delivers Head(s.fate) of the
\* len bytes asked for, into an emptied receive buffer, and releases the bus.
requestFrom(s, len) ==
    Then(IF Head(s.fate) <= len THEN Head(s.fate) ELSE len, LAMBDA n :
    Then(Log([s EXCEPT !.rx = Fetch(s, len, n), !.fate = Tail(@)],
             [Entry("requestFrom", s.ptr, len, TRUE, ActiveBit(s.regs))
                 EXCEPT !.got = n]), LAMBDA s1 :
    Released(s1)))

\* Wire.available()
wireAvailable(s) == Len(s.rx)

\* Wire.read(): the next byte of the receive buffer, which it leaves
wireRead(s) == [s |-> [s EXCEPT !.rx = Tail(@)], val |-> Head(s.rx)]

---------------------------------------------------------------------------
(* Register access: MMA8452Q::writeRegister(s), readRegister(s) *)

\* for (x = 0; x < len; x++) Wire.write(buffer[x])
writeAll(s, buffer) ==
    [s EXCEPT !.txData = @ \o buffer,
              !.log = @ \o [k \in 1..Len(buffer) |->
                               Entry("writeData", "-", buffer[k], FALSE,
                                     ActiveBit(s.regs))]]

writeRegisters(s, reg, buffer) ==
    Then(beginTransmission(s), LAMBDA s1 :
    Then(writeAddress(s1, reg), LAMBDA s2 :
    Then(writeAll(s2, buffer), LAMBDA s3 :
    endTransmission(s3, TRUE))))

writeRegister(s, reg, data) == writeRegisters(s, reg, <<data>>)

\* Result: the call state and the byte returned (0 when no byte came back).
readRegister(s, reg) ==
    Then(beginTransmission(s), LAMBDA s1 :
    Then(writeAddress(s1, reg), LAMBDA s2 :
    Then(endTransmission(s2, FALSE), LAMBDA s3 :
    Then(requestFrom(s3, 1), LAMBDA s4 :
    IF wireAvailable(s4) # 0
    THEN Then(wireRead(s4), LAMBDA r : [s |-> r.s, val |-> r.val.b])
    ELSE [s |-> s4, val |-> 0]))))

\* for (x = 0; x < len; x++) buffer[x] = Wire.read()
readAll(s, buffer, len) ==
    [s |-> [s EXCEPT !.rx = SubSeq(@, len + 1, Len(@))],
     buffer |-> SubSeq(s.rx, 1, len) \o SubSeq(buffer, len + 1, Len(buffer))]

\* Variant of readRegisters that releases the bus after the register-address
\* write instead of holding it.
readRegistersReleased(s, reg, buffer, len) ==
    Then(beginTransmission(s), LAMBDA s1 :
    Then(writeAddress(s1, reg), LAMBDA s2 :
    Then(endTransmission(s2, TRUE), LAMBDA s3 :
    Then(requestFrom(s3, len), LAMBDA s4 :
    IF wireAvailable(s4) = len
    THEN readAll(s4, buffer, len)
    ELSE [s |-> s4, buffer |-> buffer]))))

\* Variant of readRegisters that copies whatever arrived.
readRegistersPartial(s, reg, buffer, len) ==
    Then(beginTransmission(s), LAMBDA s1 :
    Then(writeAddress(s1, reg), LAMBDA s2 :
    Then(endTransmission(s2, FALSE), LAMBDA s3 :
    Then(requestFrom(s3, len), LAMBDA s4 :
    readAll(s4, buffer, wireAvailable(s4))))))

\* Result: the call state and the destination buffer.
readRegisters(s, reg, buffer, len) ==
    Then(beginTransmission(s), LAMBDA s1 :
    Then(writeAddress(s1, reg), LAMBDA s2 :
    Then(endTransmission(s2, FALSE), LAMBDA s3 :
    Then(requestFrom(s3, len), LAMBDA s4 :
    IF wireAvailable(s4) = len
    THEN readAll(s4, buffer, len)
    ELSE [s |-> s4, buffer |-> buffer]))))

---------------------------------------------------------------------------
(* The driver: MMA8452Q's methods *)

\* MMA8452Q_Scale: SCALE_2G, SCALE_4G, SCALE_8G carry their range in g.
Scales == {2, 4, 8}

\* MMA8452Q_ODR: ODR_800 .. ODR_1 are the rate codes 0 .. 7.
Odrs == 0..7

standby(s) ==
    Then(readRegister(s, "CTRL_REG1"), LAMBDA c :
    writeRegister(c.s, "CTRL_REG1", BitAnd(c.val, 254)))

active(s) ==
    Then(readRegister(s, "CTRL_REG1"), LAMBDA c :
    writeRegister(c.s, "CTRL_REG1", ToByte(BitOr(c.val, 1))))

setScale(s, fsr) ==
    Then(readRegister(s, "XYZ_DATA_CFG"), LAMBDA r :
    Then(BitAnd(r.val, 252), LAMBDA cfg :
    Then(ToByte(BitOr(cfg, ShiftRight(fsr, 2))), LAMBDA cfg2 :
    writeRegister(r.s, "XYZ_DATA_CFG", cfg2))))

setODR(s, odr) ==
    Then(readRegister(s, "CTRL_REG1"), LAMBDA r :
    Then(BitAnd(r.val, 199), LAMBDA ctrl :
    Then(ToByte(BitOr(ctrl, ShiftLeft(odr, 3))), LAMBDA ctrl2 :
    writeRegister(r.s, "CTRL_REG1", ctrl2))))

setupPL(s) ==
    Then(readRegister(s, "PL_CFG"), LAMBDA r :
    Then(writeRegister(r.s, "PL_CFG", ToByte(BitOr(r.val, 64))), LAMBDA s1 :
    writeRegister(s1, "PL_COUNT", 80)))

\* Variant of setupTap that configures pulse detection before the thresholds.
setupTapConfigFirst(s, xThs, yThs, zThs) ==
    LET tx == IF BitAnd(xThs, 128) = 0 THEN 3 ELSE 0
        ty == IF BitAnd(yThs, 128) = 0 THEN BitOr(tx, 12) ELSE tx
        temp == IF BitAnd(zThs, 128) = 0 THEN BitOr(ty, 48) ELSE ty
    IN  Then(writeRegister(s, "PULSE_CFG", ToByte(BitOr(temp, 64))), LAMBDA s1 :
        Then(IF BitAnd(xThs, 128) = 0
             THEN writeRegister(s1, "PULSE_THSX", xThs) ELSE s1, LAMBDA s2 :
        Then(IF BitAnd(yThs, 128) = 0
             THEN writeRegister(s2, "PULSE_THSY", yThs) ELSE s2, LAMBDA s3 :
        Then(IF BitAnd(zThs, 128) = 0
             THEN writeRegister(s3, "PULSE_THSZ", zThs) ELSE s3, LAMBDA s4 :
        Then(writeRegister(s4, "PULSE_TMLT", 48), LAMBDA s5 :
        Then(writeRegister(s5, "PULSE_LTCY", 160), LAMBDA s6 :
        writeRegister(s6, "PULSE_WIND", 255)))))))

setupTap(s, xThs, yThs, zThs) ==
    LET tx == IF BitAnd(xThs, 128) = 0 THEN 3 ELSE 0
        ty == IF BitAnd(yThs, 128) = 0 THEN BitOr(tx, 12) ELSE tx
        temp == IF BitAnd(zThs, 128) = 0 THEN BitOr(ty, 48) ELSE ty
    IN  Then(IF BitAnd(xThs, 128) = 0
             THEN writeRegister(s, "PULSE_THSX", xThs) ELSE s, LAMBDA s1 :
        Then(IF BitAnd(yThs, 128) = 0
             THEN writeRegister(s1, "PULSE_THSY", yThs) ELSE s1, LAMBDA s2 :
        Then(IF BitAnd(zThs, 128) = 0
             THEN writeRegister(s2, "PULSE_THSZ", zThs) ELSE s2, LAMBDA s3 :
        Then(writeRegister(s3, "PULSE_CFG", ToByte(BitOr(temp, 64))), LAMBDA s4 :
        Then(writeRegister(s4, "PULSE_TMLT", 48), LAMBDA s5 :
        Then(writeRegister(s5, "PULSE_LTCY", 160), LAMBDA s6 :
        writeRegister(s6, "PULSE_WIND", 255)))))))

\* Result: the call state and the byte returned.
readTap(s) ==
    Then(readRegister(s, "PULSE_SRC"), LAMBDA tapStat :
    [s |-> tapStat.s,
     val |-> IF BitAnd(tapStat.val, 128) # 0
             THEN BitAnd(tapStat.val, 127) ELSE 0])

\* (readRegister(STATUS_MMA8452Q) & 0x08) >> 3
available(s) ==
    Then(readRegister(s, "STATUS"), LAMBDA r :
    [s |-> r.s, val |-> ShiftRight(BitAnd(r.val, 8), 3)])

\* The value of LOCKOUT (MMA8452Q.h): none of the orientation codes 0 .. 3.
LOCKOUT == 64

\* Result: the call state and the byte returned.
readPL(s) ==
    Then(readRegister(s, "PL_STATUS"), LAMBDA plStat :
    [s |-> plStat.s,
     val |-> IF BitAnd(plStat.val, 64) # 0
             THEN LOCKOUT
             ELSE ShiftRight(BitAnd(plStat.val, 6), 1)])

\* Variant of init that goes on whatever the identity register reads.
initUnchecked(s, fsr, odr) ==
    Then(wireBegin(s), LAMBDA s0 :
    Then(readRegister(s0, "WHO_AM_I"), LAMBDA c :
    Then(standby(c.s), LAMBDA s1 :
    Then(setScale(s1, fsr), LAMBDA s2 :
    Then(setODR(s2, odr), LAMBDA s3 :
    Then(setupPL(s3), LAMBDA s4 :
    Then(setupTap(s4, 128, 128, 8), LAMBDA s5 :
    Then(active(s5), LAMBDA s6 :
    [s |-> s6, val |-> 1, scale |-> fsr]))))))))

\* Variant of init that configures the device in the mode it finds it in.
initNoStandby(s, fsr, odr) ==
    Then(wireBegin(s), LAMBDA s0 :
    Then(readRegister(s0, "WHO_AM_I"), LAMBDA c :
    IF c.val # 42
    THEN [s |-> c.s, val |-> 0, scale |-> fsr]
    ELSE Then(setScale(c.s, fsr), LAMBDA s2 :
         Then(setODR(s2, odr), LAMBDA s3 :
         Then(setupPL(s3), LAMBDA s4 :
         Then(setupTap(s4, 128, 128, 8), LAMBDA s5 :
         Then(active(s5), LAMBDA s6 :
         [s |-> s6, val |-> 1, scale |-> fsr])))))))

\* Result: the call state, the byte returned and the new value of scale.
init(s, fsr, odr) ==
    Then(wireBegin(s), LAMBDA s0 :
    Then(readRegister(s0, "WHO_AM_I"), LAMBDA c :
    IF c.val # 42
    THEN [s |-> c.s, val |-> 0, scale |-> fsr]
    ELSE Then(standby(c.s), LAMBDA s1 :
         Then(setScale(s1, fsr), LAMBDA s2 :
         Then(setODR(s2, odr), LAMBDA s3 :
         Then(setupPL(s3), LAMBDA s4 :
         Then(setupTap(s4, 128, 128, 8), LAMBDA s5 :
         Then(active(s5), LAMBDA s6 :
         [s |-> s6, val |-> 1, scale |-> fsr]))))))))

\* Variant of decode without the conversion to short.
decodeUnsigned(hi, lo) == ShiftRight(BitOr16(ShiftLeft(hi, 8), lo), 4)

\* ((short)(hi << 8 | lo)) >> 4
decode(hi, lo) == ShiftRight(ToShort(BitOr16(ShiftLeft(hi, 8), lo)), 4)

\* (float) v / (float)(1 << 11) * (float)(sc), in units of 1/2048 g: the
\* quotient and the product are exact in a float for a 12-bit v and sc <= 8.
calibrate(v, sc) == v * sc

\* Result: the call state, the buffer, the raw and the calibrated values.
read(s, junk, sc) ==
    Then(readRegisters(s, "OUT_X_MSB", junk, 6), LAMBDA r :
    Then(decode(r.buffer[1].b, r.buffer[2].b), LAMBDA vx :
    Then(decode(r.buffer[3].b, r.buffer[4].b), LAMBDA vy :
    Then(decode(r.buffer[5].b, r.buffer[6].b), LAMBDA vz :
    [s |-> r.s, buffer |-> r.buffer, x |-> vx, y |-> vy, z |-> vz,
     cx |-> calibrate(vx, sc), cy |-> calibrate(vy, sc),
     cz |-> calibrate(vz, sc)]))))

---------------------------------------------------------------------------
(* Inputs *)

\* What the identity register of the part on the bus may hold: the MMA8452Q's
\* 0x2A, nothing at all, another part.
Identities == {42, 0, 26}

\* Control register 1 and the data-config register at power-up or as left
\* by an earlier user of the device.
InitCtrl == {1, 198}
InitCfg == {0, 16}

\* Values the device may latch in its pulse-source register.
TapSources == {0, 131, 128, 68}

\* Values the device may hold in its orientation-status register: portrait
\* up, landscape left with the change flag, lockout.
PlSources == {0, 134, 196}

\* Threshold bytes a caller passes to setupTap: enabled (0x08) and disabled
\* (0x80, 0xFF).
Thresholds == {8, 128, 255}

\* Rates a caller passes to init: ODR_800 (000) and ODR_12 (101).
InitOdrs == {0, 5}

\* What MMA8452Q::scale, which the constructor leaves uninitialised, may
\* hold before init: no range of the part.
UninitScale == {0, 3}

\* What the uninitialised rawData of read() may hold.
Junk(a, b, c, d, e, f) ==
    <<Tagged(a, NoUpdate), Tagged(b, NoUpdate), Tagged(c, NoUpdate),
      Tagged(d, NoUpdate), Tagged(e, NoUpdate), Tagged(f, NoUpdate)>>

JunkBufs == {Junk(0, 0, 0, 0, 0, 0), Junk(253, 50, 103, 156, 209, 6)}

\* The fates of k one-byte requests: for each, 1 (the byte arrives) or 0.
Fates(k) ==
    {f \in [1..k -> {0, 1}] : Cardinality({i \in 1..k : f[i] = 0}) <= MaxFail}

NoArgs == <<0, 0, 0>>

Call(name, args) == [name |-> name, args |-> args]

EmptyBuf == Junk(0, 0, 0, 0, 0, 0)

---------------------------------------------------------------------------
(* The state machine *)

InitRegs(id, c, f) ==
    LoadSample([STATUS |-> 0, WHO_AM_I |-> id, XYZ_DATA_CFG |-> f,
                CTRL_REG1 |-> c, PL_STATUS |-> 0, PL_CFG |-> 128,
                PL_COUNT |-> 0, PULSE_CFG |-> 0, PULSE_SRC |-> 0,
                PULSE_THSX |-> 0, PULSE_THSY |-> 0, PULSE_THSZ |-> 0,
                PULSE_TMLT |-> 0, PULSE_LTCY |-> 0, PULSE_WIND |-> 0,
                OUT_X_MSB |-> 0, OUT_X_LSB |-> 0, OUT_Y_MSB |-> 0,
                OUT_Y_LSB |-> 0, OUT_Z_MSB |-> 0, OUT_Z_LSB |-> 0], 0)

InitHandle ==
    /\ rxBuf = <<>>
    /\ x = 0 /\ y = 0 /\ z = 0
    /\ cx = 0 /\ cy = 0 /\ cz = 0
    /\ rawData = EmptyBuf
    /\ bufBefore = EmptyBuf
    /\ op = Call("none", NoArgs)
    /\ ret = 0
    /\ busLog = <<>>
    /\ steps = 0

Init ==
    /\ \E id \in Identities, c \in InitCtrl, f \in InitCfg :
         regs = InitRegs(id, c, f)
    /\ scale \in UninitScale
    /\ gen = 0
    /\ InitHandle

\* What a call that is not read() leaves behind: r is the method's result,
\* [s, val] and, for init, scale.  rawData is a local of read(): it is gone
\* when another call runs.
Finish(r, name, args, sc) ==
    /\ regs' = r.s.regs
    /\ rxBuf' = r.s.rx
    /\ gen' = r.s.gen
    /\ busLog' = r.s.log
    /\ op' = Call(name, args)
    /\ ret' = r.val
    /\ scale' = sc
    /\ rawData' = EmptyBuf
    /\ bufBefore' = EmptyBuf
    /\ UNCHANGED <<x, y, z, cx, cy, cz>>

\* The result of a void method.
Void(s) == [s |-> s, val |-> 0]

FinishInit(r, fsr, odr) == Finish(r, "init", <<fsr, odr, 0>>, r.scale)

CallInit ==
    \E fsr \in Scales, odr \in InitOdrs, fate \in Fates(6) :
        \E r \in {init(Start(fate, 0), fsr, odr)} : FinishInit(r, fsr, odr)

FinishRead(r, junk) ==
    /\ regs' = r.s.regs
    /\ rxBuf' = r.s.rx
    /\ gen' = r.s.gen
    /\ busLog' = r.s.log
    /\ op' = Call("read", NoArgs)
    /\ ret' = 0
    /\ x' = r.x /\ y' = r.y /\ z' = r.z
    /\ cx' = r.cx /\ cy' = r.cy /\ cz' = r.cz
    /\ rawData' = r.buffer
    /\ bufBefore' = junk
    /\ UNCHANGED scale

\* read() holds the bus from its register-address write to the end of its
\* request: the sensor can refresh only at the idle point after it (upd = 1).
ReadWith(n, junk, upd) ==
    /\ upd = 1 => gen < MaxGen
    /\ \E r \in {read(Start(<<n>>, upd), junk, scale)} : FinishRead(r, junk)

CallRead == \E n \in 0..6, junk \in JunkBufs, upd \in {0, 1} : ReadWith(n, junk, upd)

CallSetScale ==
    \E fsr \in Scales, fate \in Fates(1) :
        \E r \in {Void(setScale(Start(fate, 0), fsr))} :
            Finish(r, "setScale", <<fsr, 0, 0>>, scale)

CallSetODR ==
    \E odr \in Odrs, fate \in Fates(1) :
        \E r \in {Void(setODR(Start(fate, 0), odr))} :
            Finish(r, "setODR", <<odr, 0, 0>>, scale)

CallSetupTap ==
    \E xThs \in Thresholds, yThs \in Thresholds, zThs \in Thresholds :
        \E r \in {Void(setupTap(Start(<<>>, 0), xThs, yThs, zThs))} :
            Finish(r, "setupTap", <<xThs, yThs, zThs>>, scale)

CallReadTap ==
    \E fate \in Fates(1) :
        \E r \in {readTap(Start(fate, 0))} :
            Finish(r, "readTap", NoArgs, scale)

CallAvailable ==
    \E fate \in Fates(1) :
        \E r \in {available(Start(fate, 0))} :
            Finish(r, "available", NoArgs, scale)

CallReadPL ==
    \E fate \in Fates(1) :
        \E r \in {readPL(Start(fate, 0))} :
            Finish(r, "readPL", NoArgs, scale)

CallStandby ==
    \E fate \in Fates(1) :
        \E r \in {Void(standby(Start(fate, 0)))} :
            Finish(r, "standby", NoArgs, scale)

CallActive ==
    \E fate \in Fates(1) :
        \E r \in {Void(active(Start(fate, 0)))} :
            Finish(r, "active", NoArgs, scale)

\* A device event leaves the handle alone.
Event(name) ==
    /\ op' = Call(name, NoArgs)
    /\ busLog' = <<>>
    /\ ret' = 0
    /\ rawData' = EmptyBuf
    /\ bufBefore' = EmptyBuf
    /\ UNCHANGED <<rxBuf, scale, x, y, z, cx, cy, cz>>

\* The sensor refreshes its output registers while the bus is idle.
SensorUpdate ==
    /\ gen < MaxGen
    /\ gen' = gen + 1
    /\ regs' = LoadSample(regs, gen + 1)
    /\ Event("sensor")

\* The device latches a tap event (or clears it) in its pulse-source register.
TapEvent ==
    /\ \E v \in TapSources :
         /\ v # regs["PULSE_SRC"]
         /\ regs' = [regs EXCEPT !["PULSE_SRC"] = v]
    /\ gen' = gen
    /\ Event("tap")

\* The device reports another orientation in its orientation-status register.
OrientationEvent ==
    /\ \E v \in PlSources :
         /\ v # regs["PL_STATUS"]
         /\ regs' = [regs EXCEPT !["PL_STATUS"] = v]
    /\ gen' = gen
    /\ Event("orientation")

\* The device raises or drops the new-data flag (bit 3) of its status register.
StatusEvent ==
    /\ regs' = [regs EXCEPT !["STATUS"] = 8 - @]
    /\ gen' = gen
    /\ Event("status")

\* One more step of a behaviour of at most MaxSteps steps.
Budget == steps < MaxSteps /\ steps' = steps + 1

\* The whole driver.
Next ==
    \/ Budget /\ CallInit
    \/ Budget /\ CallRead
    \/ Budget /\ CallSetScale
    \/ Budget /\ CallSetODR
    \/ Budget /\ CallSetupTap
    \/ Budget /\ CallReadTap
    \/ Budget /\ CallAvailable
    \/ Budget /\ CallReadPL
    \/ Budget /\ CallStandby
    \/ Budget /\ CallActive
    \/ Budget /\ SensorUpdate
    \/ Budget /\ TapEvent
    \/ Budget /\ OrientationEvent
    \/ Budget /\ StatusEvent

Spec == Init /\ [][Next]_vars

\* init() alone, called again and again.
NextInit == CallInit /\ UNCHANGED steps

SpecInit == Init /\ [][NextInit]_vars

\* read() against a sensor that keeps measuring.
NextRead ==
    \/ CallRead /\ UNCHANGED steps
    \/ SensorUpdate /\ UNCHANGED steps

SpecRead == Init /\ [][NextRead]_vars

\* setupTap() alone.
NextTap == CallSetupTap /\ UNCHANGED steps

SpecTap == Init /\ [][NextTap]_vars

\* One answered read() of output registers whose X pair is any two bytes
\* (and whose Y pair is the same two, swapped).
InitDecode ==
    /\ \E hi \in Byte, lo \in Byte :
         regs = [InitRegs(42, 1, 0) EXCEPT !["OUT_X_MSB"] = hi,
                                           !["OUT_X_LSB"] = lo,
                                           !["OUT_Y_MSB"] = lo,
                                           !["OUT_Y_LSB"] = hi]
    /\ scale = 2
    /\ gen = MaxGen
    /\ InitHandle

NextDecode ==
    op.name = "none" /\ ReadWith(6, EmptyBuf, 0) /\ UNCHANGED steps

SpecDecode == InitDecode /\ [][NextDecode]_vars

---------------------------------------------------------------------------
(* Views of the log of the last call *)

\* The register writes that reached the device, in order.
Stores(log) == SelectSeq(log, LAMBDA e : e.op = "store")

\* The byte requests, in order.
Requests(log) == SelectSeq(log, LAMBDA e : e.op = "requestFrom")

\* The device register accesses (reads requested, writes stored), in order.
Accesses(log) ==
    SelectSeq(log, LAMBDA e : e.op = "requestFrom" \/ e.op = "store")

\* <<register, value>> of each entry.
RegVals(log) == [i \in 1..Len(log) |-> <<log[i].reg, log[i].val>>]

\* <<operation, register>> of each entry.
OpRegs(log) == [i \in 1..Len(log) |-> <<log[i].op, log[i].reg>>]

\* What the bus saw of each entry.
Wire(log) ==
    [i \in 1..Len(log) |-> <<log[i].op, log[i].reg, log[i].val, log[i].stop>>]

\* The 2-bit code of a range in the data-config register, and back.
ScaleCode(fsr) == CASE fsr = 2 -> 0 [] fsr = 4 -> 1 [] fsr = 8 -> 2

RangeOf(code) == CASE code = 0 -> 2 [] code = 1 -> 4 [] code = 2 -> 8 [] OTHER -> 0

\* A 16-bit value read as two's complement.
Signed16(v) == IF v >= 32768 THEN v - 65536 ELSE v

---------------------------------------------------------------------------
(* Properties *)

\* The byte init obtained from the identity register: the register's value
\* when the byte arrived, 0 when it did not.
IdentityRead ==
    IF Requests(busLog)[1].got = 1 THEN regs["WHO_AM_I"] ELSE 0

\* C1: init returns 1 exactly when the byte it obtains from the identity
\* register is 0x2A (no byte arriving counts as 0), and then leaves control
\* register bit 0 = 1; otherwise it returns 0, no register write reaches
\* the device and every device register keeps its value.
C1_InitIdentity ==
    [][op'.name = "init" =>
         /\ Requests(busLog')[1].reg = "WHO_AM_I"
         /\ ret' = (IF IdentityRead' = 42 THEN 1 ELSE 0)
         /\ ret' = 1 => ActiveBit(regs') = 1
         /\ ret' = 0 => Stores(busLog') = <<>> /\ regs' = regs]_vars

\* init failed against a part that identifies as 0x1A and sat in standby
\* with other control bits set.
C1_Witness ==
    /\ op.name = "init"
    /\ ret = 0
    /\ regs["WHO_AM_I"] = 26
    /\ regs["CTRL_REG1"] = 198
    /\ Stores(busLog) = <<>>

\* C2: after setScale on a handle that init has given a range, the range in
\* the handle equals the range whose code is in bits 0-1 of the data-config
\* register.
C2_ScaleMatchesRegister ==
    op.name = "setScale" /\ scale \in Scales =>
        scale = RangeOf(regs["XYZ_DATA_CFG"] % 4)

\* C3: for every pair of bytes (hi, lo) in the X output registers (and the
\* pair (lo, hi) in the Y output registers), the raw value read() decodes is
\* the two's-complement reading of hi * 256 + lo shifted right
\* arithmetically by 4: it lies in -2048 .. 2047, the low 4 bits of lo do
\* not affect it, (0x7F, 0xF0) gives 2047 and (0x80, 0x00) gives -2048.
C3_DecodeSignExtends ==
    op.name = "read" =>
        LET hi == regs["OUT_X_MSB"]
            lo == regs["OUT_X_LSB"]
        IN  /\ 16 * x <= Signed16(hi * 256 + lo)
            /\ Signed16(hi * 256 + lo) < 16 * x + 16
            /\ 16 * x = Signed16(hi * 256 + (lo - (lo % 16)))
            /\ x \in -2048 .. 2047
            /\ hi = 127 /\ lo = 240 => x = 2047
            /\ hi = 128 /\ lo = 0 => x = 0 - 2048
            /\ 16 * y = Signed16(lo * 256 + (hi - (hi % 16)))
            /\ y \in -2048 .. 2047

\* read() decoded the most negative value from (0x80, 0x0F).
C3_Witness ==
    /\ op.name = "read"
    /\ regs["OUT_X_MSB"] = 128
    /\ regs["OUT_X_LSB"] = 15
    /\ x = 0 - 2048
    /\ y = 248

\* C4: setScale(range) leaves bits 2-7 of the data-config register as they
\* were, sets bits 0-1 to the code of the range, and changes no other
\* register.
C4_SetScaleFrame ==
    [][op'.name = "setScale" =>
         /\ regs'["XYZ_DATA_CFG"] \div 4 = regs["XYZ_DATA_CFG"] \div 4
         /\ regs'["XYZ_DATA_CFG"] % 4 = ScaleCode(op'.args[1])
         /\ \A n \in RegNames \ {"XYZ_DATA_CFG"} : regs'[n] = regs[n]]_vars

\* The register writes the tap configuration asks for: a threshold for each
\* axis whose byte has bit 7 clear, then the enable fields of those axes
\* with the mode bit, then the three fixed timing values.
TapWrites(xThs, yThs, zThs) ==
    (IF xThs < 128 THEN << <<"PULSE_THSX", xThs>> >> ELSE <<>>)
    \o (IF yThs < 128 THEN << <<"PULSE_THSY", yThs>> >> ELSE <<>>)
    \o (IF zThs < 128 THEN << <<"PULSE_THSZ", zThs>> >> ELSE <<>>)
    \o << <<"PULSE_CFG", 64 + (IF xThs < 128 THEN 3 ELSE 0)
                            + (IF yThs < 128 THEN 12 ELSE 0)
                            + (IF zThs < 128 THEN 48 ELSE 0)>>,
          <<"PULSE_TMLT", 48>>, <<"PULSE_LTCY", 160>>, <<"PULSE_WIND", 255>> >>

\* C5: the register writes of setupTap(x, y, z) are exactly: the threshold
\* byte of each axis whose bit 7 is clear, to that axis's threshold
\* register; then the pulse-config value made of the enable fields of those
\* axes (0x03, 0x0C, 0x30) and the mode bit 0x40; then time limit 0x30,
\* latency 0xA0 and window 0xFF; and setupTap reads nothing.
C5_SetupTapWrites ==
    op.name = "setupTap" =>
        /\ RegVals(Stores(busLog)) = TapWrites(op.args[1], op.args[2], op.args[3])
        /\ Requests(busLog) = <<>>

\* setupTap(0x80, 0x08, 0xFF) enabled the y axis alone.
C5_Witness ==
    /\ op.name = "setupTap"
    /\ op.args = <<128, 8, 255>>
    /\ regs["PULSE_CFG"] = 76
    /\ regs["PULSE_THSY"] = 8
    /\ regs["PULSE_THSX"] = 0
    /\ Len(Stores(busLog)) = 5

C7_ReadTapDecodes ==
    op.name = "readTap" =>
        /\ ret = (IF regs["PULSE_SRC"] >= 128 THEN regs["PULSE_SRC"] % 128 ELSE 0)
        /\ OpRegs(Accesses(busLog)) = << <<"requestFrom", "PULSE_SRC">> >>

\* C8: when the request of read() brings fewer than 6 bytes, the buffer
\* keeps what it held before the call and the bytes that arrived stay in
\* the transport; when it brings 6, the buffer holds the six output bytes
\* in order and the transport is empty.
C8_BurstAllOrNothing ==
    op.name = "read" =>
        LET q == busLog[Len(busLog)] IN
        /\ q.op = "requestFrom"
        /\ q.got # 6 => rawData = bufBefore /\ Len(rxBuf) = q.got
        /\ q.got = 6 =>
             /\ \A i \in 1..6 : /\ rawData[i].g \in 0 .. MaxGen
                                /\ rawData[i].b = Sample(rawData[i].g, i)
             /\ rxBuf = <<>>

\* Three of the six bytes arrived: the buffer kept its junk and the three
\* bytes are still in the transport.
C8_Witness ==
    /\ op.name = "read"
    /\ busLog[Len(busLog)].got = 3
    /\ bufBefore = Junk(253, 50, 103, 156, 209, 6)
    /\ rawData = bufBefore
    /\ Len(rxBuf) = 3

\* The register accesses of a successful init.
InitAccesses ==
    << <<"requestFrom", "WHO_AM_I">>,
       <<"requestFrom", "CTRL_REG1">>, <<"store", "CTRL_REG1">>,
       <<"requestFrom", "XYZ_DATA_CFG">>, <<"store", "XYZ_DATA_CFG">>,
       <<"requestFrom", "CTRL_REG1">>, <<"store", "CTRL_REG1">>,
       <<"requestFrom", "PL_CFG">>, <<"store", "PL_CFG">>,
       <<"store", "PL_COUNT">>,
       <<"store", "PULSE_THSZ">>, <<"store", "PULSE_CFG">>,
       <<"store", "PULSE_TMLT">>, <<"store", "PULSE_LTCY">>,
       <<"store", "PULSE_WIND">>,
       <<"requestFrom", "CTRL_REG1">>, <<"store", "CTRL_REG1">> >>

\* C9: a successful init accesses the device in the order identity read,
\* standby, scale, data rate, orientation, tap, activate; every register
\* write after the standby write and before the last one arrives while
\* control register bit 0 is 0 and none of them sets it; the last write is
\* the one that sets bit 0.
C9_InitOrder ==
    op.name = "init" /\ ret = 1 =>
        LET st == Stores(busLog) IN
        /\ OpRegs(Accesses(busLog)) = InitAccesses
        /\ Len(st) = 11
        /\ st[1].val % 2 = 0
        /\ \A i \in 2..10 : /\ st[i].act = 0
                            /\ st[i].reg = "CTRL_REG1" => st[i].val % 2 = 0
        /\ st[11].act = 0
        /\ st[11].val % 2 = 1

\* init succeeded on a device it found active.
C9_Witness ==
    /\ op.name = "init"
    /\ ret = 1
    /\ Len(Stores(busLog)) = 11
    /\ Stores(busLog)[1].act = 1
    /\ ActiveBit(regs) = 1

\* C10: standby() clears and active() sets bit 0 of the control register
\* and keep bits 1-7; setODR(rate) sets bits 3-5 to the rate code and keeps
\* bits 0-2 and 6-7.
C10_ControlFrame ==
    [][/\ op'.name = "standby" =>
            /\ regs'["CTRL_REG1"] % 2 = 0
            /\ regs'["CTRL_REG1"] \div 2 = regs["CTRL_REG1"] \div 2
       /\ op'.name = "active" =>
            /\ regs'["CTRL_REG1"] % 2 = 1
            /\ regs'["CTRL_REG1"] \div 2 = regs["CTRL_REG1"] \div 2
       /\ op'.name = "setODR" =>
            /\ (regs'["CTRL_REG1"] \div 8) % 8 = op'.args[1]
            /\ regs'["CTRL_REG1"] % 8 = regs["CTRL_REG1"] % 8
            /\ regs'["CTRL_REG1"] \div 64 = regs["CTRL_REG1"] \div 64]_vars


===========================================================================
